---- MODULE Spec2Model ----
(***************************************************************************)
(* A model of the RAG chatbot notebook src/chat.ipynb.                     *)
(*                                                                         *)
(* Text is modelled as a sequence of one-character strings, so that        *)
(* str.lower(), "\n".join(...) and the f-string of callModel are computed  *)
(* the way Python computes them.                                           *)
(*                                                                         *)
(* Specifications:                                                         *)
(*   SessionSpec  the generator object returned by callModel, driven by an *)
(*                arbitrary caller through the generator protocol          *)
(*                (next / close) against an arbitrary backend stream;      *)
(*   Spec         the conversation loop of the last notebook cell calling  *)
(*                answer_query turn after turn;                            *)
(*   RerankSpec   query_doc applied to arbitrary candidates and scores;    *)
(*   FusionSpec   the ensemble's rank fusion applied to arbitrary pairs of *)
(*                retriever results;                                       *)
(*   AssembleSpec the context join of answer_query applied to arbitrary    *)
(*                ranked lists.                                            *)
(***************************************************************************)
EXTENDS Integers, Sequences, FiniteSets, TLC

VARIABLES
    \* ---- the generator object made by callModel(context, prompt) ----
    state,          \* Idle | Streaming | Completed | Cancelled | Failed
    running,        \* TRUE while control is inside the generator body
    gen_context,    \* the generator's argument `context`
    gen_prompt,     \* the generator's argument `prompt`
    request,        \* the messages of the ollama.chat call issued, <<>> before it
    emit,           \* what the backend stream of this call will emit, in order
    pos,            \* number of units of emit the generator has fetched
    yielded,        \* the values the generator has yielded to its caller, in order
    backendCalls,   \* number of ollama.chat calls issued by this generator
    backendOpen,    \* TRUE while the generator holds the response stream
    error,          \* the exception that left the generator, "none" if none
    \* ---- the conversation loop and answer_query ----
    pc,             \* position of the notebook's last cell
    index,          \* the read-only indexes and the cross-encoder, fixed at Init
    user_input,     \* the line input() returned
    turn,           \* number of inputs read so far
    sem_docs,       \* result of semantic_retreive for the query
    lex_docs,       \* result of BM25_retrive for the query
    retrieved_docs, \* result of combined_retriever (the rerank candidates)
    scores,         \* result of cross_encoder.predict for the candidates
    top_k,          \* the top_k argument of query_doc
    top_docs,       \* result of query_doc
    maxChars,       \* a configured context budget (the code never reads it)
    context,        \* the context string of answer_query
    stdout,         \* what the current turn has printed, in order
    exitCause,      \* how the cell ended: "none" | "terminator" | "exception" | "interrupt"
    raised,         \* the exception that ended the cell or the call, "none" if none
    log             \* per handled query: the query and the request sent for it

sessVars == <<state, running, gen_context, gen_prompt, request, emit, pos,
              yielded, backendCalls, backendOpen, error>>
pipeVars == <<sem_docs, lex_docs, retrieved_docs, scores, top_k, top_docs,
              maxChars, context>>
loopVars == <<pc, index, user_input, turn, stdout, exitCause, raised, log>>
vars == <<sessVars, pipeVars, loopVars>>

(***************************************************************************)
(* Bounds of the model.                                                    *)
(***************************************************************************)
MaxUnits == 3       \* longest backend stream explored
MaxTurns == 2       \* inputs read by the loop before the model stops it
MaxCands == 3       \* longest candidate list handed to query_doc on its own
MaxScore == 2       \* cross-encoder scores range over 0..MaxScore
MaxBudget == 4      \* budgets explored range over 0..MaxBudget
MaxList == 3        \* longest retriever result handed to the fusion on its own

Min(a, b) == IF a <= b THEN a ELSE b
Max(a, b) == IF a >= b THEN a ELSE b

(***************************************************************************)
(* The generation backend: a stream of units, each tagged with "done".     *)
(***************************************************************************)
Contents == { <<"x">>, <<"y">> }
Units == [content : Contents, done : BOOLEAN]
Emissions == UNION { [1..n -> Units] : n \in 0..MaxUnits }

system_prompt == <<"S">>

Lit_Context == <<"C", "o", "n", "t", "e", "x", "t">>
Lit_Question == <<",", " ", "Q", "u", "e", "s", "t", "i", "o", "n">>

\* Messages with the questions of the earlier turns put before the question
Messages_WithHistory(ctx, prompt) ==
    << [role |-> "system", content |-> system_prompt],
       [role |-> "user",
        content |-> Lit_Context \o ctx \o Lit_Question
                    \o (IF log = <<>> THEN <<>> ELSE log[Len(log)].query)
                    \o prompt] >>

\* the messages argument of ollama.chat in callModel
Messages(ctx, prompt) ==
    << [role |-> "system", content |-> system_prompt],
       [role |-> "user", content |-> Lit_Context \o ctx \o Lit_Question \o prompt] >>

Terminal == {"Completed", "Cancelled", "Failed"}

\* callModel(context, prompt): calling a generator function runs none of its body
NewSession(ctx, prompt) ==
    /\ state' = "Idle"
    /\ running' = FALSE
    /\ gen_context' = ctx
    /\ gen_prompt' = prompt
    /\ request' = <<>>
    /\ emit' = <<>>
    /\ pos' = 0
    /\ yielded' = <<>>
    /\ backendCalls' = 0
    /\ backendOpen' = FALSE
    /\ error' = "none"

\* first next(): the body starts and issues the one ollama.chat(stream=True) call
GenStart ==
    /\ state = "Idle"
    /\ state' = "Streaming"
    /\ running' = TRUE
    /\ request' = Messages(gen_context, gen_prompt)
    /\ \E e \in Emissions : emit' = e
    /\ pos' = 0
    /\ backendCalls' = backendCalls + 1
    /\ backendOpen' = TRUE
    /\ UNCHANGED <<gen_context, gen_prompt, yielded, error>>

\* a later next(): the body resumes after its yield
GenResume ==
    /\ state = "Streaming"
    /\ ~running
    /\ running' = TRUE
    /\ UNCHANGED <<state, gen_context, gen_prompt, request, emit, pos, yielded,
                   backendCalls, backendOpen, error>>

\* GenPull with the done unit's content yielded as well
GenPull_YieldsDone ==
    /\ state = "Streaming"
    /\ running
    /\ \/ /\ pos < Len(emit)
          /\ pos' = pos + 1
          /\ yielded' = Append(yielded, emit[pos + 1].content)
          /\ IF emit[pos + 1].done
             THEN state' = "Completed" /\ backendOpen' = FALSE
             ELSE UNCHANGED <<state, backendOpen>>
          /\ running' = FALSE
       \/ /\ pos = Len(emit)
          /\ state' = "Completed"
          /\ running' = FALSE
          /\ backendOpen' = FALSE
          /\ UNCHANGED <<pos, yielded>>
    /\ UNCHANGED <<gen_context, gen_prompt, request, emit, backendCalls, error>>

\* `for chunk in response`: the next chunk, and the if/else on chunk["done"]
GenPull ==
    /\ state = "Streaming"
    /\ running
    /\ \/ /\ pos < Len(emit)
          /\ emit[pos + 1].done = FALSE
          /\ pos' = pos + 1
          /\ yielded' = Append(yielded, emit[pos + 1].content)
          /\ running' = FALSE
          /\ UNCHANGED <<state, backendOpen>>
       \/ /\ pos < Len(emit)
          /\ emit[pos + 1].done # FALSE
          /\ pos' = pos + 1
          /\ state' = "Completed"
          /\ running' = FALSE
          /\ backendOpen' = FALSE
          /\ UNCHANGED yielded
       \/ /\ pos = Len(emit)
          /\ state' = "Completed"
          /\ running' = FALSE
          /\ backendOpen' = FALSE
          /\ UNCHANGED <<pos, yielded>>
    /\ UNCHANGED <<gen_context, gen_prompt, request, emit, backendCalls, error>>

\* GenRaise with the error caught and the call issued again
GenRaise_Retry ==
    /\ state = "Streaming"
    /\ running
    /\ backendCalls < 3
    /\ backendCalls' = backendCalls + 1
    /\ pos' = 0
    /\ UNCHANGED <<state, running, gen_context, gen_prompt, request, emit,
                   yielded, backendOpen, error>>

\* the response stream raises while the body waits for a chunk: nothing in
\* callModel catches it, so the exception leaves the generator
GenRaise ==
    /\ state = "Streaming"
    /\ running
    /\ state' = "Failed"
    /\ running' = FALSE
    /\ backendOpen' = FALSE
    /\ error' = "ResponseError"
    /\ UNCHANGED <<gen_context, gen_prompt, request, emit, pos, yielded,
                   backendCalls>>

\* next() on a finished generator raises StopIteration and runs nothing
GenNextFinished ==
    /\ state \in Terminal
    /\ UNCHANGED sessVars

\* GenClose that marks every session Cancelled, finished or not
GenClose_Always ==
    /\ ~running
    /\ state' = "Cancelled"
    /\ backendOpen' = FALSE
    /\ UNCHANGED <<running, gen_context, gen_prompt, request, emit, pos,
                   yielded, backendCalls, error>>

\* GenClose that leaves the response stream open behind a cancelled session
GenClose_Leak ==
    /\ ~running
    /\ state' = (IF state \in Terminal THEN state ELSE "Cancelled")
    /\ UNCHANGED <<running, gen_context, gen_prompt, request, emit, pos,
                   yielded, backendCalls, backendOpen, error>>

\* close(): a generator that has not started is finished without running;
\* one suspended at its yield gets GeneratorExit there, which callModel does
\* not catch, so the frame is dropped and with it the response stream;
\* a finished generator is left as it is
GenClose ==
    /\ ~running
    /\ \/ /\ state = "Idle"
          /\ state' = "Cancelled"
          /\ UNCHANGED backendOpen
       \/ /\ state = "Streaming"
          /\ state' = "Cancelled"
          /\ backendOpen' = FALSE
       \/ /\ state \in Terminal
          /\ UNCHANGED <<state, backendOpen>>
    /\ UNCHANGED <<running, gen_context, gen_prompt, request, emit, pos,
                   yielded, backendCalls, error>>

(***************************************************************************)
(* The corpus, the two retrievers and the cross-encoder.  They are         *)
(* collaborators of the notebook: what they return for a query is data of  *)
(* the index, fixed while queries are handled.                             *)
(***************************************************************************)
Docs == {"d1", "d2", "d3"}

\* the chunks of a larger corpus
MoreDocs == {"d4", "d5", "d6", "d7", "d8", "d9", "d10", "d11", "d12"}

\* a second stored copy of d1: another Document with the same page_content
DocCopy == "d1x"

\* doc.page_content
PageContent(d) ==
    CASE d = "d1" -> <<"a">>
      [] d = "d2" -> <<"b", "c">>
      [] d = "d3" -> <<"d">>
      [] d = "d4" -> <<"e">>
      [] d = "d5" -> <<"f">>
      [] d = "d6" -> <<"g">>
      [] d = "d7" -> <<"h">>
      [] d = "d8" -> <<"i">>
      [] d = "d9" -> <<"j">>
      [] d = "d10" -> <<"k">>
      [] d = "d11" -> <<"l">>
      [] d = "d12" -> <<"m">>
      [] d = DocCopy -> <<"a">>

\* the place of a chunk in splits
ChunkNo(d) ==
    CASE d = "d1" -> 1 [] d = "d2" -> 2 [] d = "d3" -> 3 [] d = "d4" -> 4
      [] d = "d5" -> 5 [] d = "d6" -> 6 [] d = "d7" -> 7 [] d = "d8" -> 8
      [] d = "d9" -> 9 [] d = "d10" -> 10 [] d = "d11" -> 11 [] d = "d12" -> 12
      [] d = DocCopy -> 13

Q_empty == <<>>
Q_hi == <<"h", "i">>
Q_quits == <<"q", "u", "i", "t", "s">>
Queries == {Q_empty, Q_hi, Q_quits}

\* the lines the user may type
Inputs ==
    Queries \cup { <<"q", "u", "i", "t">>, <<"Q", "u", "I", "T">>,
                   <<"E", "x", "i", "t">> }

\* a three-chunk corpus; the cross-encoder scores two chunks alike for Q_quits
IndexA ==
    [ splits |-> Docs,
      sem |-> [q \in Queries |->
                 CASE q = Q_empty -> <<"d1", "d2", "d3">>
                   [] q = Q_hi -> <<"d2", "d1", "d3">>
                   [] q = Q_quits -> <<"d3", "d1", "d2">>],
      lex |-> [q \in Queries |->
                 CASE q = Q_empty -> <<"d3", "d2", "d1">>
                   [] q = Q_hi -> <<"d2", "d3", "d1">>
                   [] q = Q_quits -> <<"d1", "d2", "d3">>],
      ce |-> [q \in Queries |->
                 CASE q = Q_empty -> [d \in Docs |-> CASE d = "d1" -> 0 [] d = "d2" -> 2 [] d = "d3" -> 1]
                   [] q = Q_hi -> [d \in Docs |-> CASE d = "d1" -> 2 [] d = "d2" -> 1 [] d = "d3" -> 0]
                   [] q = Q_quits -> [d \in Docs |-> CASE d = "d1" -> 1 [] d = "d2" -> 1 [] d = "d3" -> 0]] ]

\* a one-chunk corpus
IndexB ==
    [ splits |-> {"d2"},
      sem |-> [q \in Queries |-> <<"d2">>],
      lex |-> [q \in Queries |-> <<"d2">>],
      ce |-> [q \in Queries |-> [d \in Docs |-> 1]] ]

\* a twelve-chunk corpus: each retriever ranks more chunks than it may return;
\* the cross-encoder gives every chunk a score of its own, except for Q_quits
IndexC ==
    [ splits |-> Docs \cup MoreDocs,
      sem |-> [q \in Queries |->
                 CASE q = Q_empty -> <<"d1", "d2", "d3", "d4", "d5", "d6", "d7">>
                   [] q = Q_hi -> <<"d1", "d2", "d3", "d4", "d5", "d6", "d7">>
                   [] q = Q_quits -> <<"d4", "d5">>],
      lex |-> [q \in Queries |->
                 CASE q = Q_empty -> <<"d8", "d9", "d10", "d11", "d12", "d1", "d2">>
                   [] q = Q_hi -> <<"d3", "d2", "d8", "d9", "d10", "d11">>
                   [] q = Q_quits -> <<"d5">>],
      ce |-> [q \in Queries |->
                 CASE q = Q_empty -> [d \in Docs \cup MoreDocs |-> ChunkNo(d)]
                   [] q = Q_hi -> [d \in Docs \cup MoreDocs |-> 13 - ChunkNo(d)]
                   [] q = Q_quits -> [d \in Docs \cup MoreDocs |-> 1]] ]

\* the PDF gave no chunk: splits is the empty list
IndexEmpty ==
    [ splits |-> {},
      sem |-> [q \in Queries |-> <<>>],
      lex |-> [q \in Queries |-> <<>>],
      ce |-> [q \in Queries |-> <<>>] ]

Indexes == {IndexA, IndexB, IndexC, IndexEmpty}

RetrieverK == 5      \* search_kwargs k of semantic_retreive, BM25_retrive.k
TopK == 10           \* top_k of answer_query's get_relevant_documents call
WeightSem == 7       \* EnsembleRetriever weights 0.7 and 0.3, in tenths
WeightLex == 3
RrfC == 60           \* EnsembleRetriever's rank constant c

\* Python's s[:k]
SliceTo(s, k) ==
    IF k >= 0 THEN SubSeq(s, 1, Min(k, Len(s)))
    ELSE SubSeq(s, 1, Max(Len(s) + k, 0))

\* Retrieve with no limit on the number of chunks returned
Retrieve_NoLimit(ranking) == ranking

\* a retriever configured with k returns the k best chunks of its ranking
Retrieve(ranking) == SliceTo(ranking, RetrieverK)

Range(s) == {s[i] : i \in 1..Len(s)}

\* position of the first element of s with the content c, 0 if none
RankOf(s, c) ==
    IF \E i \in 1..Len(s) : PageContent(s[i]) = c
    THEN CHOOSE i \in 1..Len(s) :
            /\ PageContent(s[i]) = c
            /\ \A j \in 1..(i - 1) : PageContent(s[j]) # c
    ELSE 0

\* (1 + c) * (2 + c) * ... * (n + c)
RECURSIVE ProductOver(_, _)
ProductOver(n, c) == IF n = 0 THEN 1 ELSE (n + c) * ProductOver(n - 1, c)

\* scores are kept as whole numbers: the score times RrfScale, a common
\* multiple of every rank + c a retriever's result can have
RrfScale == ProductOver(RetrieverK, RrfC)

\* what the first n places of list s add to the score of content c:
\* weight / (rank + c) for every place holding that content, ranks from 1
RECURSIVE ListScore(_, _, _, _)
ListScore(s, n, weight, c) ==
    IF n = 0 THEN 0
    ELSE ListScore(s, n - 1, weight, c)
         + (IF PageContent(s[n]) = c THEN weight * (RrfScale \div (n + RrfC))
            ELSE 0)

\* ListScore with the reciprocal of the rank alone, weight / rank
RECURSIVE ListScore_NoC(_, _, _, _)
ListScore_NoC(s, n, weight, c) ==
    IF n = 0 THEN 0
    ELSE ListScore_NoC(s, n - 1, weight, c)
         + (IF PageContent(s[n]) = c
            THEN weight * (ProductOver(RetrieverK, 0) \div n)
            ELSE 0)

\* RrfScore with the reciprocal of the rank alone
RrfScore_NoC(sem, lex, c) ==
    ListScore_NoC(sem, Len(sem), WeightSem, c)
    + ListScore_NoC(lex, Len(lex), WeightLex, c)

\* rrf_score[doc.page_content]: the weighted reciprocal-rank score of content
\* c summed over both lists, times RrfScale
RrfScore(sem, lex, c) ==
    ListScore(sem, Len(sem), WeightSem, c) + ListScore(lex, Len(lex), WeightLex, c)

\* the elements of s with the first occurrence of each content kept
RECURSIVE UniqueByContent(_)
UniqueByContent(s) ==
    IF s = <<>> THEN <<>>
    ELSE LET init == UniqueByContent(SubSeq(s, 1, Len(s) - 1))
             last == s[Len(s)]
         IN  IF \E i \in 1..Len(init) : PageContent(init[i]) = PageContent(last)
             THEN init
             ELSE Append(init, last)

\* s, a descending list of <<key, item>> pairs, with the pair x put after the
\* last pair whose key is not below x's: one step of a stable sort in
\* descending order
RECURSIVE InsertDesc(_, _)
InsertDesc(s, x) ==
    IF s = <<>> THEN <<x>>
    ELSE IF x[1] > s[Len(s)][1]
         THEN Append(InsertDesc(SubSeq(s, 1, Len(s) - 1), x), s[Len(s)])
         ELSE Append(s, x)

\* sorted(..., reverse=True) by key: descending, equal keys in input order
RECURSIVE StableSortDesc(_)
StableSortDesc(s) ==
    IF s = <<>> THEN <<>>
    ELSE InsertDesc(StableSortDesc(SubSeq(s, 1, Len(s) - 1)), s[Len(s)])

\* EnsembleRetriever.weighted_reciprocal_rank over the two result lists
WeightedRRF(sem, lex) ==
    LET uniq == UniqueByContent(sem \o lex)
        pairs == [i \in 1..Len(uniq) |->
                    <<RrfScore(sem, lex, PageContent(uniq[i])), uniq[i]>>]
        sorted == StableSortDesc(pairs)
    IN  [i \in 1..Len(uniq) |-> sorted[i][2]]

\* cross_encoder.predict over the (query, page_content) pairs
Predict(idx, q, docs) == [i \in 1..Len(docs) |-> idx.ce[q][docs[i]]]

\* sorted(zip(scores, docs), reverse=True) compares the tuples: on equal scores
\* it compares the two Documents, which are not ordered, and raises TypeError
SortRaises(sc, docs) ==
    \E i, j \in 1..Len(docs) : sc[i] = sc[j] /\ docs[i] # docs[j]

\* the documents of sorted(zip(scores, docs), reverse=True), when it returns
SortedDocs(sc, docs) ==
    LET pairs == [i \in 1..Len(docs) |-> <<sc[i], docs[i]>>]
        sorted == StableSortDesc(pairs)
    IN  [i \in 1..Len(docs) |-> sorted[i][2]]

\* what query_doc returns when the sort does not raise: sorted_docs[:top_k]
QueryDoc(sc, docs, k) == SliceTo(SortedDocs(sc, docs), k)

\* "\n".join(texts)
RECURSIVE Join(_)
Join(texts) ==
    IF texts = <<>> THEN <<>>
    ELSE IF Len(texts) = 1 THEN texts[1]
    ELSE Join(SubSeq(texts, 1, Len(texts) - 1)) \o <<"\n">> \o texts[Len(texts)]

\* Assemble with chunks taken only while the text stays within the budget
RECURSIVE Assemble_Budgeted(_, _)
Assemble_Budgeted(docs, budget) ==
    IF docs = <<>> THEN <<>>
    ELSE LET init == Assemble_Budgeted(SubSeq(docs, 1, Len(docs) - 1), budget)
             all == Join([i \in 1..Len(docs) |-> PageContent(docs[i])])
         IN  IF Len(all) <= budget THEN all ELSE init

\* the context of answer_query: every chunk of top_docs, no budget applied
Assemble(docs, budget) == Join([i \in 1..Len(docs) |-> PageContent(docs[i])])

(***************************************************************************)
(* SessionSpec: one generator, any caller.                                 *)
(***************************************************************************)
Idle_pipe ==
    /\ sem_docs = <<>>
    /\ lex_docs = <<>>
    /\ retrieved_docs = <<>>
    /\ scores = <<>>
    /\ top_k = 10
    /\ top_docs = <<>>
    /\ maxChars = 0
    /\ context = <<>>

Idle_loop ==
    /\ pc = "none"
    /\ index = 0
    /\ user_input = <<>>
    /\ turn = 0
    /\ stdout = <<>>
    /\ exitCause = "none"
    /\ raised = "none"
    /\ log = <<>>

SessionInit ==
    /\ state = "Idle"
    /\ running = FALSE
    /\ gen_context \in { <<>>, <<"a">> }
    /\ gen_prompt \in { <<"q">> }
    /\ request = <<>>
    /\ emit = <<>>
    /\ pos = 0
    /\ yielded = <<>>
    /\ backendCalls = 0
    /\ backendOpen = FALSE
    /\ error = "none"
    /\ Idle_pipe
    /\ Idle_loop

(***************************************************************************)
(* Spec: the conversation loop and answer_query.                           *)
(***************************************************************************)
LowerChar(c) ==
    CASE c = "Q" -> "q" [] c = "U" -> "u" [] c = "I" -> "i" [] c = "T" -> "t"
      [] c = "E" -> "e" [] c = "X" -> "x" [] c = "H" -> "h" [] c = "S" -> "s"
      [] OTHER -> c

\* Lower with the conversion left out
Lower_Identity(t) == t

\* str.lower()
Lower(t) == [i \in 1..Len(t) |-> LowerChar(t[i])]

TerminatorTokens == { <<"q", "u", "i", "t">>, <<"e", "x", "i", "t">> }

Lit_Banner == <<"Chatbot is running. Type 'quit' or 'exit' to end the session.">>
Lit_Prompt == <<"You: ">>
Lit_Ended == <<"Chatbot session ended.">>
Lit_Answer == <<"Answer: ">>
Lit_Newlines == <<"\n\n">>
QuestionLine(q) == <<"\n", "Question: ">> \o q

\* no generator object exists
NoSession ==
    /\ state' = "None"
    /\ running' = FALSE
    /\ gen_context' = <<>>
    /\ gen_prompt' = <<>>
    /\ request' = <<>>
    /\ emit' = <<>>
    /\ pos' = 0
    /\ yielded' = <<>>
    /\ backendCalls' = 0
    /\ backendOpen' = FALSE
    /\ error' = "none"

\* the locals of answer_query and of the retriever calls before they are set
NoLocals ==
    /\ sem_docs' = <<>>
    /\ lex_docs' = <<>>
    /\ retrieved_docs' = <<>>
    /\ scores' = <<>>
    /\ top_k' = TopK
    /\ top_docs' = <<>>
    /\ maxChars' = 0
    /\ context' = <<>>

Init ==
    /\ pc = "build"
    /\ index \in Indexes
    /\ user_input = <<>>
    /\ turn = 0
    /\ stdout = <<>>
    /\ exitCause = "none"
    /\ raised = "none"
    /\ log = <<>>
    /\ state = "None"
    /\ running = FALSE
    /\ gen_context = <<>>
    /\ gen_prompt = <<>>
    /\ request = <<>>
    /\ emit = <<>>
    /\ pos = 0
    /\ yielded = <<>>
    /\ backendCalls = 0
    /\ backendOpen = FALSE
    /\ error = "none"
    /\ Idle_pipe

\* an uncaught exception leaves answer_query and the while loop: the cell ends
Propagate(exc) ==
    /\ pc' = "ended"
    /\ exitCause' = "exception"
    /\ raised' = exc

\* the cells that build the vector store and the BM25 retriever from splits,
\* and then the banner of the loop cell.  BM25Retriever.from_documents unpacks
\* zip(*...) over the documents and BM25Okapi divides by the corpus size: over
\* no documents the construction raises and the later cells have no retriever
BuildIndexes ==
    /\ pc = "build"
    /\ IF index.splits = {}
       THEN /\ pc' = "build_failed"
            /\ raised' = "BuildError"
            /\ UNCHANGED stdout
       ELSE /\ pc' = "input"
            /\ stdout' = <<Lit_Banner>>
            /\ UNCHANGED raised
    /\ UNCHANGED <<pipeVars, sessVars, index, user_input, turn, exitCause, log>>

\* user_input = input("You: ") and the test for quit / exit
ReadInput ==
    /\ pc = "input"
    /\ turn < MaxTurns
    /\ \E inp \in Inputs :
        /\ user_input' = inp
        /\ IF Lower(inp) \in TerminatorTokens
           THEN /\ stdout' = <<Lit_Prompt, Lit_Ended>>
                /\ pc' = "ended"
                /\ exitCause' = "terminator"
           ELSE /\ stdout' = <<Lit_Prompt>>
                /\ pc' = "semantic"
                /\ UNCHANGED exitCause
    /\ turn' = turn + 1
    /\ NoSession
    /\ NoLocals
    /\ UNCHANGED <<index, raised, log>>

\* the ensemble asks its first retriever, semantic_retreive
SemanticRetrieve ==
    /\ pc = "semantic"
    /\ \/ /\ sem_docs' = Retrieve(index.sem[user_input])
          /\ pc' = "lexical"
          /\ UNCHANGED <<exitCause, raised>>
       \/ /\ Propagate("RetrievalError")
          /\ UNCHANGED sem_docs
    /\ UNCHANGED <<lex_docs, retrieved_docs, scores, top_k, top_docs, maxChars,
                   context, index, user_input, turn, stdout, log, sessVars>>

\* the ensemble asks its second retriever, BM25_retrive
LexicalRetrieve ==
    /\ pc = "lexical"
    /\ \/ /\ lex_docs' = Retrieve(index.lex[user_input])
          /\ pc' = "fuse"
          /\ UNCHANGED <<exitCause, raised>>
       \/ /\ Propagate("RetrievalError")
          /\ UNCHANGED lex_docs
    /\ UNCHANGED <<sem_docs, retrieved_docs, scores, top_k, top_docs, maxChars,
                   context, index, user_input, turn, stdout, log, sessVars>>

\* Fuse not waiting for the second retriever
Fuse_Early ==
    /\ pc \in {"lexical", "fuse"}
    /\ retrieved_docs' = WeightedRRF(sem_docs, lex_docs)
    /\ pc' = "rerank"
    /\ UNCHANGED <<sem_docs, lex_docs, scores, top_k, top_docs, maxChars,
                   context, index, user_input, turn, stdout, exitCause, raised,
                   log, sessVars>>

\* the ensemble fuses the two lists; its result is retrieved_docs
Fuse ==
    /\ pc = "fuse"
    /\ retrieved_docs' = WeightedRRF(sem_docs, lex_docs)
    /\ pc' = "rerank"
    /\ UNCHANGED <<sem_docs, lex_docs, scores, top_k, top_docs, maxChars,
                   context, index, user_input, turn, stdout, exitCause, raised,
                   log, sessVars>>

\* Rerank with a scoring failure absorbed: the candidates are returned in
\* fusion order and the turn goes on
Rerank_Fallback ==
    /\ pc = "rerank"
    /\ \/ /\ raised' = "PredictError"
          /\ top_docs' = SliceTo(retrieved_docs, top_k)
          /\ pc' = "assemble"
          /\ UNCHANGED <<scores, exitCause>>
       \/ /\ scores' = Predict(index, user_input, retrieved_docs)
          /\ IF SortRaises(scores', retrieved_docs)
             THEN /\ Propagate("TypeError")
                  /\ UNCHANGED top_docs
             ELSE /\ top_docs' = QueryDoc(scores', retrieved_docs, top_k)
                  /\ pc' = "assemble"
                  /\ UNCHANGED <<exitCause, raised>>
    /\ UNCHANGED <<sem_docs, lex_docs, retrieved_docs, top_k, maxChars, context,
                   index, user_input, turn, stdout, log, sessVars>>

\* self.reranker(query, retrieved_docs, top_k=top_k): query_doc
Rerank ==
    /\ pc = "rerank"
    /\ \/ /\ Propagate("PredictError")
          /\ UNCHANGED <<scores, top_docs>>
       \/ /\ scores' = Predict(index, user_input, retrieved_docs)
          /\ IF SortRaises(scores', retrieved_docs)
             THEN /\ Propagate("TypeError")
                  /\ UNCHANGED top_docs
             ELSE /\ top_docs' = QueryDoc(scores', retrieved_docs, top_k)
                  /\ pc' = "assemble"
                  /\ UNCHANGED <<exitCause, raised>>
    /\ UNCHANGED <<sem_docs, lex_docs, retrieved_docs, top_k, maxChars, context,
                   index, user_input, turn, stdout, log, sessVars>>

\* context = "\n".join(...), the two prints, and callModel(context, query)
AssembleAndAsk ==
    /\ pc = "assemble"
    /\ context' = Assemble(top_docs, maxChars)
    /\ stdout' = stdout \o <<QuestionLine(user_input), Lit_Answer>>
    /\ NewSession(context', user_input)
    /\ pc' = "stream"
    /\ UNCHANGED <<sem_docs, lex_docs, retrieved_docs, scores, top_k, top_docs,
                   maxChars, index, user_input, turn, exitCause, raised, log>>

\* the for statement's first next()
L_Start ==
    /\ pc = "stream"
    /\ GenStart
    /\ log' = Append(log, [query |-> user_input, request |-> request'])
    /\ UNCHANGED <<pipeVars, pc, index, user_input, turn, stdout, exitCause,
                   raised>>

\* the for statement's later next() calls
L_Resume ==
    /\ pc = "stream"
    /\ GenResume
    /\ UNCHANGED <<pipeVars, loopVars>>

\* the generator yields a chunk, which is printed, or finishes, which ends
\* the for statement: print("\n") and back to input()
L_Pull ==
    /\ pc = "stream"
    /\ GenPull
    /\ IF state' = "Streaming"
       THEN /\ stdout' = Append(stdout, yielded'[Len(yielded')])
            /\ pc' = "stream"
       ELSE /\ stdout' = Append(stdout, Lit_Newlines)
            /\ pc' = "input"
    /\ UNCHANGED <<pipeVars, index, user_input, turn, exitCause, raised, log>>

\* the backend error leaves the generator and then answer_query and the loop
L_Raise ==
    /\ pc = "stream"
    /\ GenRaise
    /\ Propagate(error')
    /\ UNCHANGED <<pipeVars, index, user_input, turn, stdout, log>>

\* the user interrupts the turn while answer_query holds the generator:
\* KeyboardInterrupt leaves the loop and the dropped generator is closed
L_Interrupt ==
    /\ pc = "stream"
    /\ state \in {"Idle", "Streaming"}
    /\ GenClose
    /\ pc' = "ended"
    /\ exitCause' = "interrupt"
    /\ raised' = "KeyboardInterrupt"
    /\ UNCHANGED <<pipeVars, index, user_input, turn, stdout, log>>

Next ==
    \/ BuildIndexes
    \/ ReadInput
    \/ SemanticRetrieve
    \/ LexicalRetrieve
    \/ Fuse
    \/ Rerank
    \/ AssembleAndAsk
    \/ L_Start
    \/ L_Resume
    \/ L_Pull
    \/ L_Raise
    \/ L_Interrupt

Spec == Init /\ [][Next]_vars

(***************************************************************************)
(* RerankSpec: query_doc on its own, after cross_encoder.predict returned. *)
(***************************************************************************)
CandidateLists == UNION { [1..n -> Docs] : n \in 0..MaxCands }

RerankInit ==
    /\ pc = "rerank_call"
    /\ retrieved_docs \in CandidateLists
    /\ scores \in [1..Len(retrieved_docs) -> 0..MaxScore]
    /\ \A i, j \in 1..Len(retrieved_docs) :
            retrieved_docs[i] = retrieved_docs[j] => scores[i] = scores[j]
    /\ top_k \in (0 - MaxCands)..(MaxCands + 1)
    /\ sem_docs = <<>>
    /\ lex_docs = <<>>
    /\ top_docs = <<>>
    /\ maxChars = 0
    /\ context = <<>>
    /\ index = 0
    /\ user_input = <<>>
    /\ turn = 0
    /\ stdout = <<>>
    /\ exitCause = "none"
    /\ raised = "none"
    /\ log = <<>>
    /\ state = "None"
    /\ running = FALSE
    /\ gen_context = <<>>
    /\ gen_prompt = <<>>
    /\ request = <<>>
    /\ emit = <<>>
    /\ pos = 0
    /\ yielded = <<>>
    /\ backendCalls = 0
    /\ backendOpen = FALSE
    /\ error = "none"

\* R_Call with the arguments validated first: a top_k that is not positive or
\* exceeds the number of candidates is rejected
R_Call_Strict ==
    /\ pc = "rerank_call"
    /\ pc' = "rerank_done"
    /\ \/ /\ top_k <= 0 \/ top_k > Len(retrieved_docs)
          /\ raised' = "ConfigurationError"
          /\ UNCHANGED top_docs
       \/ /\ ~(top_k <= 0 \/ top_k > Len(retrieved_docs))
          /\ SortRaises(scores, retrieved_docs)
          /\ raised' = "TypeError"
          /\ UNCHANGED top_docs
       \/ /\ ~(top_k <= 0 \/ top_k > Len(retrieved_docs))
          /\ ~SortRaises(scores, retrieved_docs)
          /\ top_docs' = QueryDoc(scores, retrieved_docs, top_k)
          /\ UNCHANGED raised
    /\ UNCHANGED <<sem_docs, lex_docs, retrieved_docs, scores, top_k, maxChars,
                   context, index, user_input, turn, stdout, exitCause, log,
                   sessVars>>

\* sorted(...) and the slice of query_doc
R_Call ==
    /\ pc = "rerank_call"
    /\ pc' = "rerank_done"
    /\ \/ /\ SortRaises(scores, retrieved_docs)
          /\ raised' = "TypeError"
          /\ UNCHANGED top_docs
       \/ /\ ~SortRaises(scores, retrieved_docs)
          /\ top_docs' = QueryDoc(scores, retrieved_docs, top_k)
          /\ UNCHANGED raised
    /\ UNCHANGED <<sem_docs, lex_docs, retrieved_docs, scores, top_k, maxChars,
                   context, index, user_input, turn, stdout, exitCause, log,
                   sessVars>>

RerankNext == R_Call

RerankSpec == RerankInit /\ [][RerankNext]_vars

(***************************************************************************)
(* FusionSpec: the ensemble's rank fusion on its own, over any two result  *)
(* lists.  A retriever returns no Document twice, but two Documents may    *)
(* carry the same page_content.                                            *)
(***************************************************************************)
FusionDocs == Docs \cup {DocCopy}

ResultLists ==
    { s \in UNION { [1..n -> FusionDocs] : n \in 0..MaxList } :
        \A i, j \in 1..Len(s) : i # j => s[i] # s[j] }

FusionInit ==
    /\ pc = "fuse_call"
    /\ sem_docs \in ResultLists
    /\ lex_docs \in ResultLists
    /\ retrieved_docs = <<>>
    /\ scores = <<>>
    /\ top_k = TopK
    /\ top_docs = <<>>
    /\ maxChars = 0
    /\ context = <<>>
    /\ index = 0
    /\ user_input = <<>>
    /\ turn = 0
    /\ stdout = <<>>
    /\ exitCause = "none"
    /\ raised = "none"
    /\ log = <<>>
    /\ state = "None"
    /\ running = FALSE
    /\ gen_context = <<>>
    /\ gen_prompt = <<>>
    /\ request = <<>>
    /\ emit = <<>>
    /\ pos = 0
    /\ yielded = <<>>
    /\ backendCalls = 0
    /\ backendOpen = FALSE
    /\ error = "none"

\* combined_retriever's weighted_reciprocal_rank over the two lists
F_Call ==
    /\ pc = "fuse_call"
    /\ pc' = "fuse_done"
    /\ retrieved_docs' = WeightedRRF(sem_docs, lex_docs)
    /\ UNCHANGED <<sem_docs, lex_docs, scores, top_k, top_docs, maxChars,
                   context, index, user_input, turn, stdout, exitCause, raised,
                   log, sessVars>>

FusionNext == F_Call

FusionSpec == FusionInit /\ [][FusionNext]_vars

(***************************************************************************)
(* AssembleSpec: the context join of answer_query on its own.              *)
(***************************************************************************)
AssembleInit ==
    /\ pc = "assemble_call"
    /\ top_docs \in CandidateLists
    /\ maxChars \in 0..MaxBudget
    /\ sem_docs = <<>>
    /\ lex_docs = <<>>
    /\ retrieved_docs = <<>>
    /\ scores = <<>>
    /\ top_k = TopK
    /\ context = <<>>
    /\ index = 0
    /\ user_input = <<>>
    /\ turn = 0
    /\ stdout = <<>>
    /\ exitCause = "none"
    /\ raised = "none"
    /\ log = <<>>
    /\ state = "None"
    /\ running = FALSE
    /\ gen_context = <<>>
    /\ gen_prompt = <<>>
    /\ request = <<>>
    /\ emit = <<>>
    /\ pos = 0
    /\ yielded = <<>>
    /\ backendCalls = 0
    /\ backendOpen = FALSE
    /\ error = "none"

\* context = "\n".join([doc.page_content for doc in top_docs])
A_Call ==
    /\ pc = "assemble_call"
    /\ pc' = "assemble_done"
    /\ context' = Assemble(top_docs, maxChars)
    /\ UNCHANGED <<sem_docs, lex_docs, retrieved_docs, scores, top_k, top_docs,
                   maxChars, index, user_input, turn, stdout, exitCause, raised,
                   log, sessVars>>

AssembleNext == A_Call

AssembleSpec == AssembleInit /\ [][AssembleNext]_vars

(***************************************************************************)
(* SessionSpec, continued.                                                 *)
(***************************************************************************)
\* the caller's next() and close() calls, and the body's steps, in any order
S_Start == GenStart /\ UNCHANGED <<pipeVars, loopVars>>
S_Resume == GenResume /\ UNCHANGED <<pipeVars, loopVars>>
S_Pull == GenPull /\ UNCHANGED <<pipeVars, loopVars>>
S_Raise == GenRaise /\ UNCHANGED <<pipeVars, loopVars>>
S_NextFinished == GenNextFinished /\ UNCHANGED <<pipeVars, loopVars>>
S_Close == GenClose /\ UNCHANGED <<pipeVars, loopVars>>

SessionNext ==
    \/ S_Start
    \/ S_Resume
    \/ S_Pull
    \/ S_Raise
    \/ S_NextFinished
    \/ S_Close

SessionSpec == SessionInit /\ [][SessionNext]_vars

(***************************************************************************)
(* Claims about the generation session (checked under SessionSpec).        *)
(***************************************************************************)
\* index of the first unit tagged done, Len(e) + 1 if there is none
FirstDone(e) ==
    IF \E i \in 1..Len(e) : e[i].done
    THEN CHOOSE i \in 1..Len(e) : e[i].done /\ \A j \in 1..(i - 1) : ~e[j].done
    ELSE Len(e) + 1

\* the contents of the units emitted before the first done unit
BeforeDone(e) == [i \in 1..(FirstDone(e) - 1) |-> e[i].content]

\* C1 as stated: a terminal state is never left, and Cancelled is entered
\* only from Streaming.
C1_CancelledOnlyFromStreaming ==
    [][ /\ (state \in Terminal => state' = state)
        /\ (state' = "Cancelled" => state \in {"Streaming", "Cancelled"}) ]_vars

\* C1 amended: a terminal state is never left by any later next() or close();
\* Cancelled is entered from Streaming suspended at its yield, or from Idle,
\* and from Idle without any backend call or yielded unit.
C1_TerminalFinal ==
    [][ /\ (state \in Terminal => state' = state /\ yielded' = yielded)
        /\ (state = "Streaming" /\ state' = "Cancelled" => ~running)
        /\ (state = "Idle" /\ state' = "Cancelled" =>
                backendCalls' = 0 /\ yielded' = <<>> /\ request' = <<>>) ]_vars

C1_Witness == state = "Cancelled" /\ backendCalls = 0

\* C2: what has been yielded is the backend's units in emission order, none
\* skipped or repeated, up to and excluding the first unit tagged done.
C2_YieldedIsPrefixBeforeDone ==
    /\ Len(yielded) <= Len(BeforeDone(emit))
    /\ yielded = SubSeq(BeforeDone(emit), 1, Len(yielded))
    /\ (state = "Streaming" => Len(yielded) = pos)
    /\ (state = "Completed" => yielded = BeforeDone(emit))

C2_Witness ==
    /\ state = "Completed"
    /\ Len(yielded) >= 1
    /\ pos < Len(emit)

\* C3: a cancel of a Streaming session leaves what was yielded as it was,
\* releases the backend stream, and nothing is fetched or yielded afterwards.
C3_CancelKeepsBuffer ==
    [][ /\ (state = "Streaming" /\ state' = "Cancelled" =>
                yielded' = yielded /\ pos' = pos /\ ~backendOpen')
        /\ (state = "Cancelled" =>
                /\ state' = "Cancelled"
                /\ yielded' = yielded
                /\ pos' = pos
                /\ ~backendOpen') ]_vars

C3_Witness ==
    /\ state = "Cancelled"
    /\ Len(yielded) >= 1
    /\ pos < Len(emit)
    /\ ~backendOpen

\* C4: a backend error on a Streaming session ends it Failed with the error,
\* with every unit yielded before it kept, and with one backend call only.
C4_FailedKeepsPartialNoRetry ==
    /\ backendCalls <= 1
    /\ (state = "Failed" =>
            /\ error = "ResponseError"
            /\ backendCalls = 1
            /\ ~backendOpen
            /\ Len(yielded) = pos
            /\ \A i \in 1..pos : yielded[i] = emit[i].content)

C4_Witness ==
    /\ state = "Failed"
    /\ Len(yielded) >= 1

(***************************************************************************)
(* Claims about the conversation loop (checked under Spec).                *)
(***************************************************************************)
\* C5: an error while a query is handled does not end the session.
C5_ErrorKeepsSession == pc = "ended" => exitCause # "exception"

UpperOf(c) ==
    CASE c = "q" -> "Q" [] c = "u" -> "U" [] c = "i" -> "I" [] c = "t" -> "T"
      [] c = "e" -> "E" [] c = "x" -> "X"

\* t is word in some letter case
SameLetters(t, word) ==
    /\ Len(t) = Len(word)
    /\ \A i \in 1..Len(word) : t[i] = word[i] \/ t[i] = UpperOf(word[i])

IsTerminator(t) ==
    \/ SameLetters(t, <<"q", "u", "i", "t">>)
    \/ SameLetters(t, <<"e", "x", "i", "t">>)

\* C6: quit or exit in any letter case ends the session and is not handled as
\* a query; any other input, the empty one too, is handled as a query, and
\* when the loop is back at its prompt the Question line and the whole
\* streamed answer of that query have been printed.
C6_TerminatorOrAnsweredQuery ==
    /\ (turn >= 1 /\ IsTerminator(user_input) =>
            /\ pc = "ended"
            /\ exitCause = "terminator"
            /\ stdout = <<Lit_Prompt, Lit_Ended>>
            /\ state = "None"
            /\ retrieved_docs = <<>>)
    /\ (turn >= 1 /\ ~IsTerminator(user_input) =>
            /\ exitCause # "terminator"
            /\ (pc = "ended" => raised # "none"))
    /\ (pc = "input" /\ turn >= 1 =>
            /\ ~IsTerminator(user_input)
            /\ state = "Completed"
            /\ yielded = BeforeDone(emit)
            /\ stdout = <<Lit_Prompt, QuestionLine(user_input), Lit_Answer>>
                        \o yielded \o <<Lit_Newlines>>
            /\ log # <<>>
            /\ log[Len(log)].query = user_input)

C6_Witness ==
    /\ pc = "input"
    /\ turn >= 1
    /\ user_input = Q_empty
    /\ Len(yielded) >= 1

\* the candidates, the context and the request of a query, computed from the
\* index and the query alone
CandidatesFor(idx, q) == WeightedRRF(Retrieve(idx.sem[q]), Retrieve(idx.lex[q]))

ContextFor(idx, q) ==
    LET cands == CandidatesFor(idx, q)
        ranked == QueryDoc(Predict(idx, q, cands), cands, TopK)
    IN  Join([i \in 1..Min(TopK, Len(cands)) |-> PageContent(ranked[i])])

HasSub(t, sub) ==
    \E k \in 0..(Len(t) - Len(sub)) : SubSeq(t, k + 1, k + Len(sub)) = sub

\* C8: the request of a later turn includes the questions of earlier turns.
C8_RequestCarriesHistory ==
    \A j \in 1..Len(log) : \A i \in 1..(j - 1) :
        \E m \in 1..Len(log[j].request) :
            HasSub(log[j].request[m].content, log[i].query)

(***************************************************************************)
(* Claims about the context join (checked under AssembleSpec).             *)
(***************************************************************************)
\* C9 as stated: the context text is never longer than maxChars.
C9_WithinBudget == pc = "assemble_done" => Len(context) <= maxChars

\* the place in the context where the text of chunk i starts, less one
RECURSIVE OffsetOf(_, _)
OffsetOf(docs, i) ==
    IF i <= 1 THEN 0
    ELSE OffsetOf(docs, i - 1) + Len(PageContent(docs[i - 1])) + 1

\* C9 amended: the context is every chunk of the list, in order, whole, with
\* one newline between neighbours, whatever the budget.
C9_JoinOfAllChunks ==
    pc = "assemble_done" =>
        LET n == Len(top_docs)
        IN  /\ Len(context) =
                 IF n = 0 THEN 0
                 ELSE OffsetOf(top_docs, n) + Len(PageContent(top_docs[n]))
            /\ \A i \in 1..n :
                 SubSeq(context, OffsetOf(top_docs, i) + 1,
                        OffsetOf(top_docs, i) + Len(PageContent(top_docs[i])))
                    = PageContent(top_docs[i])
            /\ \A i \in 2..n : context[OffsetOf(top_docs, i)] = "\n"

C9_Witness ==
    /\ pc = "assemble_done"
    /\ Len(top_docs) >= 2
    /\ Len(context) > maxChars

(***************************************************************************)
(* Claims about query_doc (checked under RerankSpec).                      *)
(***************************************************************************)
Count(s, d) == Cardinality({i \in 1..Len(s) : s[i] = d})

\* the score predict gave to document d of the candidates
ScoreOf(d) == scores[CHOOSE i \in 1..Len(retrieved_docs) : retrieved_docs[i] = d]

\* the returned list has min(top_k, len(candidates)) elements, each a
\* candidate no more often than in the input, in descending score order
RerankResultOk ==
    /\ Len(top_docs) = Min(top_k, Len(retrieved_docs))
    /\ \A i \in 1..Len(top_docs) :
            /\ top_docs[i] \in Range(retrieved_docs)
            /\ Count(top_docs, top_docs[i]) <= Count(retrieved_docs, top_docs[i])
    /\ \A i, j \in 1..Len(top_docs) :
            i < j => ScoreOf(top_docs[i]) >= ScoreOf(top_docs[j])

\* C10: for every candidate list, scores and top_k >= 1, query_doc returns
\* such a list.
C10_RerankReturnsTopK ==
    pc = "rerank_done" /\ top_k >= 1 => raised = "none" /\ RerankResultOk

\* whenever query_doc does return, what it returns is such a list
RerankOkWhenItReturns ==
    pc = "rerank_done" /\ raised = "none" /\ top_k >= 1 => RerankResultOk

\* position of the first occurrence of d in s
FirstPos(s, d) == CHOOSE i \in 1..Len(s) : s[i] = d /\ \A j \in 1..(i - 1) : s[j] # d

\* two different candidates were given the same score
HasTie ==
    \E i, j \in 1..Len(retrieved_docs) :
        scores[i] = scores[j] /\ retrieved_docs[i] # retrieved_docs[j]

\* C11: query_doc is stable: when two candidates have equal scores the call
\* returns normally, and of two equal-score candidates the one that came
\* first in the input comes first in the result.
C11_StableOnTies ==
    pc = "rerank_done" /\ top_k >= Len(retrieved_docs) /\ HasTie =>
        /\ raised = "none"
        /\ Range(top_docs) = Range(retrieved_docs)
        /\ \A a, b \in Range(retrieved_docs) :
                /\ a # b
                /\ ScoreOf(a) = ScoreOf(b)
                /\ FirstPos(retrieved_docs, a) < FirstPos(retrieved_docs, b)
                => FirstPos(top_docs, a) < FirstPos(top_docs, b)

\* the length of Python's s[:k] for a list of n elements
SliceLen(n, k) == IF k >= 0 THEN Min(k, n) ELSE Max(n + k, 0)

\* C12 as stated: a top_k that is not positive, or larger than the number of
\* candidates, makes the call fail with ConfigurationError and return no list.
C12_BadTopKFails ==
    pc = "rerank_done" /\ (top_k <= 0 \/ top_k > Len(retrieved_docs)) =>
        raised = "ConfigurationError" /\ top_docs = <<>>

\* C12 amended: query_doc never rejects a top_k.  Whether it raises depends on
\* the scores alone (TypeError on a tie of two different candidates); when it
\* returns, the result is the slice sorted_docs[:top_k] of the whole sorted
\* list: all candidates when top_k exceeds their number, none for top_k = 0,
\* all but the last -top_k for a negative top_k.
C12_TopKSilentlyClamped ==
    pc = "rerank_done" =>
        /\ raised \in {"none", "TypeError"}
        /\ (raised = "TypeError" <=> HasTie)
        /\ (raised = "none" =>
                /\ Len(top_docs) = SliceLen(Len(retrieved_docs), top_k)
                /\ \A i \in 1..Len(top_docs) :
                        top_docs[i] = SortedDocs(scores, retrieved_docs)[i]
                /\ (top_k >= Len(retrieved_docs) =>
                        \A d \in Docs :
                            Count(top_docs, d) = Count(retrieved_docs, d)))

C12_Witness ==
    /\ pc = "rerank_done"
    /\ raised = "none"
    /\ top_k > Len(retrieved_docs)
    /\ Len(top_docs) = Len(retrieved_docs)
    /\ Cardinality(Range(top_docs)) >= 2

(***************************************************************************)
(* Claims about failures inside a turn (checked under Spec).               *)
(***************************************************************************)
\* C13: when scoring fails (cross_encoder.predict raises, or the sort of the
\* scored pairs raises) the whole rerank call fails: no reordered or shortened
\* list is returned, no context is assembled, nothing of the turn's answer is
\* printed, and no generator is created and no backend call issued for that
\* query.
C13_ScoringFailureAbortsTurn ==
    raised \in {"PredictError", "TypeError"} =>
        /\ pc = "ended"
        /\ exitCause = "exception"
        /\ top_docs = <<>>
        /\ context = <<>>
        /\ stdout = <<Lit_Prompt>>
        /\ state = "None"
        /\ request = <<>>
        /\ backendCalls = 0
        /\ Len(log) = turn - 1

C13_Witness ==
    /\ raised = "PredictError"
    /\ turn = 2
    /\ Len(log) = 1
    /\ Len(retrieved_docs) >= 2
    /\ top_docs = <<>>

\* C14: a failure of one retriever does not abort the query: a turn in its
\* retrieval stage always goes on to the fusion, with no exception raised.
C14_RetrieverFailureDegrades ==
    [][ (pc \in {"semantic", "lexical"}) =>
            (pc' \in {"semantic", "lexical", "fuse"} /\ raised' = "none") ]_vars

(***************************************************************************)
(* Claims about the rank fusion (checked under FusionSpec).                *)
(***************************************************************************)
ContentsOf(s) == {PageContent(s[i]) : i \in 1..Len(s)}

\* the sum of f over the set S of its arguments
RECURSIVE SumOf(_, _)
SumOf(f, S) ==
    IF S = {} THEN 0
    ELSE LET x == CHOOSE y \in S : TRUE
         IN  f[x] + SumOf(f, S \ {x})

\* weight / (place + c) summed over the places of list s that hold content t,
\* times the product of all the denominators that can occur
Reciprocals(s, t, weight, c) ==
    SumOf([i \in 1..Len(s) |->
              IF PageContent(s[i]) = t
              THEN weight * (ProductOver(RetrieverK, c) \div (i + c))
              ELSE 0],
          1..Len(s))

\* the score of content t with the rank constant c
FusedScore(t, c) ==
    Reciprocals(sem_docs, t, WeightSem, c) + Reciprocals(lex_docs, t, WeightLex, c)

\* in how many of the two lists chunk d occurs
NumLists(d) ==
    (IF d \in Range(sem_docs) THEN 1 ELSE 0) + (IF d \in Range(lex_docs) THEN 1 ELSE 0)

\* the semantic rank of chunk d, beyond every rank when it has none
SemRank(d) ==
    IF d \in Range(sem_docs) THEN FirstPos(sem_docs, d) ELSE Len(sem_docs) + 1

\* the order C15 states: descending sum of w / (i + 1) over 0-based places i,
\* then presence in more lists, then the semantic rank, then the chunk id
SpecBefore(a, b) ==
    LET sa == FusedScore(PageContent(a), 0)
        sb == FusedScore(PageContent(b), 0)
    IN  \/ sa > sb
        \/ /\ sa = sb
           /\ \/ NumLists(a) > NumLists(b)
              \/ /\ NumLists(a) = NumLists(b)
                 /\ \/ SemRank(a) < SemRank(b)
                    \/ SemRank(a) = SemRank(b) /\ ChunkNo(a) < ChunkNo(b)

\* no two different chunks of the input lists carry the same text
DistinctTexts ==
    \A a, b \in Range(sem_docs) \cup Range(lex_docs) :
        a # b => PageContent(a) # PageContent(b)

\* C15 as stated: the result holds each chunk of the union of the two lists
\* exactly once, in the order of SpecBefore.
C15_SortedByReciprocalRank ==
    pc = "fuse_done" /\ DistinctTexts =>
        /\ Range(retrieved_docs) = Range(sem_docs) \cup Range(lex_docs)
        /\ Len(retrieved_docs) = Cardinality(Range(sem_docs) \cup Range(lex_docs))
        /\ \A i, j \in 1..Len(retrieved_docs) :
                i < j => SpecBefore(retrieved_docs[i], retrieved_docs[j])

\* C15 amended: the result holds each page_content of the two lists exactly
\* once, carried by the first Document with that text in the semantic list
\* followed by the lexical list; it is in descending order of the sum of
\* weight / (rank + 60) over every place holding the text, ranks from 1, and
\* texts with equal sums are in the order of that first appearance.
C15_FusedByRRF ==
    pc = "fuse_done" =>
        LET all == sem_docs \o lex_docs
            out == retrieved_docs
        IN  /\ ContentsOf(out) = ContentsOf(all)
            /\ Len(out) = Cardinality(ContentsOf(all))
            /\ \A i \in 1..Len(out) : out[i] = all[RankOf(all, PageContent(out[i]))]
            /\ \A i, j \in 1..Len(out) :
                    i < j =>
                        LET a == FusedScore(PageContent(out[i]), RrfC)
                            b == FusedScore(PageContent(out[j]), RrfC)
                        IN  \/ a > b
                            \/ /\ a = b
                               /\ RankOf(all, PageContent(out[i]))
                                    < RankOf(all, PageContent(out[j]))

\* a chunk second in the semantic list and also in the lexical one comes out
\* ahead of the semantic list's first chunk, and two Documents with the same
\* text came out as one
C15_Witness ==
    /\ pc = "fuse_done"
    /\ Len(sem_docs) >= 2
    /\ retrieved_docs[1] = sem_docs[2]
    /\ Len(retrieved_docs) < Cardinality(Range(sem_docs) \cup Range(lex_docs))

(***************************************************************************)
(* Claims about the stages of a turn (checked under Spec).                 *)
(***************************************************************************)
\* the steps from one stage to another that C16 allows
StageSteps ==
    { <<"build", "input">>, <<"build", "build_failed">>,
      <<"input", "semantic">>, <<"input", "ended">>,
      <<"semantic", "lexical">>, <<"semantic", "ended">>,
      <<"lexical", "fuse">>, <<"lexical", "ended">>,
      <<"fuse", "rerank">>,
      <<"rerank", "assemble">>, <<"rerank", "ended">>,
      <<"assemble", "stream">>,
      <<"stream", "input">>, <<"stream", "ended">> }

\* C16: within a turn the stages run one at a time in a fixed order: the
\* fusion runs after both retrievals and over their finished lists, the
\* rerank after the fusion and over its result, the context is assembled after
\* the rerank, the one backend call of the turn is issued after the context
\* is assembled and carries it, and the turn leaves its streaming stage only
\* with the session terminal.
C16_StagesInOrder ==
    [][ /\ (pc' # pc => <<pc, pc'>> \in StageSteps)
        /\ (pc = "fuse" =>
                /\ retrieved_docs' = WeightedRRF(sem_docs, lex_docs)
                /\ sem_docs = Retrieve(index.sem[user_input])
                /\ lex_docs = Retrieve(index.lex[user_input])
                /\ <<sem_docs', lex_docs'>> = <<sem_docs, lex_docs>>)
        /\ (pc # "fuse" /\ pc' # "semantic" /\ pc' # "ended" =>
                retrieved_docs' = retrieved_docs)
        /\ (pc # "rerank" /\ pc' # "semantic" /\ pc' # "ended" =>
                top_docs' = top_docs)
        /\ (pc = "rerank" /\ pc' = "assemble" =>
                /\ retrieved_docs' = retrieved_docs
                /\ Range(top_docs') \subseteq Range(retrieved_docs))
        /\ (pc # "assemble" /\ pc' # "semantic" /\ pc' # "ended" =>
                context' = context)
        /\ (pc = "assemble" =>
                /\ top_docs' = top_docs
                /\ state' = "Idle"
                /\ backendCalls' = 0
                /\ gen_context' = context')
        /\ (backendCalls' # backendCalls /\ pc' # "semantic" /\ pc' # "ended" =>
                /\ pc = "stream"
                /\ backendCalls = 0
                /\ backendCalls' = 1
                /\ context' = context
                /\ request' = Messages(context, user_input))
        /\ (pc = "stream" /\ pc' # "stream" => state' \in Terminal)
        /\ (pc = "stream" /\ pc' = "input" =>
                state' = "Completed" /\ backendCalls' = 1) ]_vars

C16_Witness ==
    /\ pc = "input"
    /\ turn = 2
    /\ state = "Completed"
    /\ backendCalls = 1
    /\ Len(retrieved_docs) >= 2
    /\ Len(yielded) >= 1

\* C17: with an empty corpus no stage raises an error: the retrievers are
\* built, and a turn runs from two empty result lists to a terminal session.
C17_EmptyCorpusRaisesNothing ==
    index.splits = {} => raised = "none" /\ pc # "build_failed"

\* C18: with each retriever returning at most RetrieverK chunks and the rerank
\* asked for TopK, at most TopK candidates reach the reranker and its
\* truncation removes none: whenever a turn has a ranked list, it holds the
\* fused candidates, all of them, each once, and the context holds the text
\* of every one of them.
C18_RerankKeepsEveryCandidate ==
    /\ top_k = TopK
    /\ Len(sem_docs) <= RetrieverK
    /\ Len(lex_docs) <= RetrieverK
    /\ Len(retrieved_docs) <= Len(sem_docs) + Len(lex_docs)
    /\ Len(retrieved_docs) <= TopK
    /\ (pc \in {"assemble", "stream"} \/ (pc = "input" /\ turn >= 1) =>
            /\ Len(top_docs) = Len(retrieved_docs)
            /\ Range(top_docs) = Range(retrieved_docs)
            /\ Cardinality(Range(top_docs)) = Len(top_docs))
    /\ (pc = "stream" \/ (pc = "input" /\ turn >= 1) =>
            /\ \A d \in Range(retrieved_docs) : HasSub(context, PageContent(d))
            /\ Len(context) = OffsetOf(top_docs, Len(top_docs) + 1) - 1)

C18_Witness ==
    /\ pc = "stream"
    /\ Len(sem_docs) = RetrieverK
    /\ Len(lex_docs) = RetrieverK
    /\ Len(retrieved_docs) = TopK
    /\ Len(top_docs) = TopK
    /\ top_docs # retrieved_docs

====
